---- MODULE Spec2Model ----
(***************************************************************************)
(* Model of src/API/index.py: the URL extractor (find_urls), the two       *)
(* measurement strategies (head_request, download_request), the concurrent *)
(* dispatcher (process_urls) and the upload handler (upload).              *)
(*                                                                         *)
(* Specifications:                                                         *)
(*   Spec          one call of process_urls with arbitrary arguments       *)
(*   SpecLive      Spec under fair scheduling                              *)
(*   SpecTimed     Spec with the clock and the finishing order recorded    *)
(*   SpecAggregate the collecting loop over any tuples, in any order       *)
(*   SpecMeasure   one strategy call over a wide range of responses        *)
(*   SpecExtract   find_urls applied to bounded JSON values                *)
(*   SpecUpload    one POST /upload request, through to its response       *)
(***************************************************************************)
EXTENDS Integers, Sequences, FiniteSets, TLC

VARIABLES
    urls,            \* process_urls argument: the URL list
    max_threads,     \* process_urls argument
    accurate,        \* process_urls argument
    pc,              \* where the thread running process_urls is
    submitted,       \* number of futures created by executor.submit so far
    queue,           \* the executor's work queue (future ids, FIFO)
    running,         \* futures a worker is executing right now
    age,             \* time.time() - start_time of each running strategy call
    now,             \* time.time(), counted from the entry of process_urls
                     \* (read in observed runs)
    results,         \* outcome stored in each finished future
    batch,           \* as_completed: the local list `finished` being yielded from
    waiter,          \* as_completed: waiter.finished_futures
    pending,         \* as_completed: futures not yet yielded
    total_size,      \* process_urls local
    total_time,      \* process_urls local
    video_details,   \* process_urls local
    ret,             \* value returned by process_urls
    responses,       \* history: how the request of each finished future ended (kind)
    finish_order,    \* history: the futures in the order their strategy calls finished
                     \* (recorded in observed runs)
    calls,           \* history: the calls made of find_urls, process_urls and the strategies
    request,         \* upload: the POST request being handled
    response,        \* upload: the HTTP response produced
    doc,             \* find_urls input (upload: `data`)
    found,           \* find_urls output (upload: `urls`)
    wire,            \* history: what the request of a lone strategy call ended in
    observed         \* whether this run records finish_order and reads the clock now

dvars == <<urls, max_threads, accurate, pc, submitted, queue,
           running, age, now, results, batch, waiter, pending,
           total_size, total_time, video_details, ret, responses, finish_order,
           calls>>
dvars_but_pc == <<urls, max_threads, accurate, submitted, queue,
                  running, age, now, results, batch, waiter, pending,
                  total_size, total_time, video_details, ret, responses,
                  finish_order, calls>>
uvars == <<request, response, doc, found, wire, observed>>
vars == <<dvars, uvars>>

None == "None"

\* ---------------------------------------------------------------- bounds
MaxUrls == 3
MaxThreads == 2
MaxElapsed == 1
MaxNodes == 4
MaxUploadNodes == 3
MaxTimedUrls == 2
MaxAggregated == 3
FloatBits == 3

\* ------------------------------------------------------------- utilities
RECURSIVE SumSeq(_)
SumSeq(s) == IF s = <<>> THEN 0 ELSE Head(s) + SumSeq(Tail(s))

Perms(S) == {p \in [1..Cardinality(S) -> S] : \A i, j \in DOMAIN p : i # j => p[i] # p[j]}

Min(a, b) == IF a < b THEN a ELSE b

\* ------------------------------------------------- strings and numbers
\* A string is a sequence of one-character strings.
Digits == {"0", "1", "2", "3", "4", "5", "6", "7", "8", "9"}
Whitespace == {" ", "\n", "\t"}

DigitVal(c) ==
    CASE c = "0" -> 0 [] c = "1" -> 1 [] c = "2" -> 2 [] c = "3" -> 3
      [] c = "4" -> 4 [] c = "5" -> 5 [] c = "6" -> 6 [] c = "7" -> 7
      [] c = "8" -> 8 [] c = "9" -> 9

RECURSIVE LStrip(_)
LStrip(s) == IF s # <<>> /\ Head(s) \in Whitespace THEN LStrip(Tail(s)) ELSE s

RECURSIVE RStrip(_)
RStrip(s) ==
    IF s # <<>> /\ s[Len(s)] \in Whitespace THEN RStrip(SubSeq(s, 1, Len(s) - 1)) ELSE s

RECURSIVE DigitsValue(_, _)
DigitsValue(s, acc) ==
    IF s = <<>> THEN acc
    ELSE IF Head(s) = "_" THEN DigitsValue(Tail(s), acc)
    ELSE DigitsValue(Tail(s), 10 * acc + DigitVal(Head(s)))

\* Python values that int() is applied to here: an int or a str.
PyIntObj(n) == [type |-> "int", v |-> n]
PyStr(s) == [type |-> "str", v |-> s]

\* Python's int(x): an int is returned as it is; a string is stripped, takes an
\* optional sign, then digits (single underscores allowed between digits).
\* Anything else raises ValueError.
PyInt(x) ==
    IF x.type = "int" THEN [ok |-> TRUE, val |-> x.v]
    ELSE
      LET t == RStrip(LStrip(x.v))
          signed == t # <<>> /\ Head(t) \in {"+", "-"}
          body == IF signed THEN Tail(t) ELSE t
          wellFormed ==
              /\ body # <<>>
              /\ \A i \in 1..Len(body) : body[i] \in Digits \cup {"_"}
              /\ body[1] \in Digits /\ body[Len(body)] \in Digits
              /\ \A i \in 1..(Len(body) - 1) : ~(body[i] = "_" /\ body[i + 1] = "_")
          mag == DigitsValue(body, 0)
      IN IF ~wellFormed THEN [ok |-> FALSE, exc |-> "ValueError"]
         ELSE [ok |-> TRUE, val |-> IF signed /\ Head(t) = "-" THEN 0 - mag ELSE mag]

\* ----------------------------------------------------- HTTP responses
\* What one request attempt can end in: requests raises a RequestException
\* (timeout, connection failure, malformed response, failure while streaming
\* the body), or a response arrives with its headers and its body.
\* headers maps the header names present to their raw values; body is the
\* number of bytes of the body.
RequestException == [kind |-> "RequestException"]
NoHeaders == [h \in {} |-> <<>>]
ContentLength(text) == [h \in {"Content-Length"} |-> text]
Response(hdrs, b) == [kind |-> "response", headers |-> hdrs, body |-> b]

Responses ==
    {RequestException,
     Response(ContentLength(<<"5">>), 8193),
     Response(ContentLength(<<"a", "b", "c">>), 8193)}

\* ------------------------------------------------ measurement strategies
\* What a strategy call ends in: a returned tuple (url, size, elapsed) or an
\* exception that leaves the function.
Returns(url, size, elapsed) ==
    [exc |-> None, url |-> url, size |-> size, elapsed |-> elapsed]
Raises(e) == [exc |-> e]

\* response.headers.get(name, default)
HeadersGet(headers, name, default) ==
    IF name \in DOMAIN headers THEN PyStr(headers[name]) ELSE PyIntObj(default)

\* head_request without its except clause: the RequestException propagates.
head_request_uncaught(url, resp, elapsed_time) ==
    IF resp.kind = "RequestException" THEN Raises("RequestException")
    ELSE LET total_bytes == PyInt(HeadersGet(resp.headers, "Content-Length", 0))
         IN IF ~total_bytes.ok THEN Raises(total_bytes.exc)
            ELSE Returns(url, total_bytes.val, elapsed_time)

\* head_request(url, session), lines 39-47; resp is what session.head ends in,
\* elapsed_time the difference of the two readings of time.time().
head_request(url, resp, elapsed_time) ==
    IF resp.kind = "RequestException" THEN Returns(url, 0, 0)
    ELSE LET total_bytes == PyInt(HeadersGet(resp.headers, "Content-Length", 0))
         IN IF ~total_bytes.ok THEN Raises(total_bytes.exc)
            ELSE Returns(url, total_bytes.val, elapsed_time)

CHUNK_SIZE == 8192

\* response.iter_content(chunk_size): the lengths of the chunks of a body.
RECURSIVE iter_content(_, _)
iter_content(body, chunk_size) ==
    IF body = 0 THEN <<>>
    ELSE <<Min(body, chunk_size)>> \o iter_content(body - Min(body, chunk_size), chunk_size)

\* download_request(url, session), lines 50-58.
download_request(url, resp, elapsed_time) ==
    IF resp.kind = "RequestException" THEN Returns(url, 0, 0)
    ELSE Returns(url, SumSeq(iter_content(resp.body, CHUNK_SIZE)), elapsed_time)

\* format_time(total_seconds), lines 61-64: the two numbers of the string.
format_time(total_seconds) ==
    [minutes |-> total_seconds \div 60, seconds |-> total_seconds % 60]

\* -------------------------------------------------------- URL extractor
\* Parsed JSON values as Python objects: dict (items in insertion order, keys
\* unique), list, str, int, None.
PyNone == [type |-> "NoneType"]
PyList(items) == [type |-> "list", items |-> items]
PyDict(keys, values) == [type |-> "dict", keys |-> keys, values |-> values]

Letters ==
    {"a", "b", "c", "d", "e", "f", "g", "h", "i", "j", "k", "l", "m",
     "n", "o", "p", "q", "r", "s", "t", "u", "v", "w", "x", "y", "z",
     "A", "B", "C", "D", "E", "F", "G", "H", "I", "J", "K", "L", "M",
     "N", "O", "P", "Q", "R", "S", "T", "U", "V", "W", "X", "Y", "Z"}

\* s starts with the characters of prefix.
StartsWith(s, prefix) ==
    Len(s) >= Len(prefix) /\ SubSeq(s, 1, Len(prefix)) = prefix

Drop(s, n) == SubSeq(s, n + 1, Len(s))

\* [a-zA-Z0-9\-_]+\.[a-zA-Z]{2,} matches at the start of s.
HostMatch(s) ==
    \E k \in 1..Len(s) :
        /\ \A i \in 1..k : s[i] \in Letters \cup Digits \cup {"-", "_"}
        /\ Len(s) >= k + 3
        /\ s[k + 1] = "."
        /\ s[k + 2] \in Letters
        /\ s[k + 3] \in Letters

\* URL_REGEX.match(s), lines 14-16 and 34: the pattern matches at the start
\* of s (the optional trailing path group can match nothing, and nothing has
\* to follow the match).
URL_REGEX_match(s) ==
    \E scheme \in {<<"h", "t", "t", "p", ":", "/", "/">>,
                   <<"h", "t", "t", "p", "s", ":", "/", "/">>} :
        /\ StartsWith(s, scheme)
        /\ LET rest == Drop(s, Len(scheme))
           IN \/ StartsWith(rest, <<"w", "w", "w", ".">>) /\ HostMatch(Drop(rest, 4))
              \/ HostMatch(rest)

\* find_urls(data), lines 26-36.
RECURSIVE find_urls(_)
RECURSIVE find_urls_extend(_)

\* extend replaced by an insertion at the front: later values come first.
find_urls_extend_reversed(values) ==
    IF values = <<>> THEN <<>>
    ELSE find_urls_extend(Tail(values)) \o find_urls(Head(values))

find_urls_extend(values) ==
    IF values = <<>> THEN <<>>
    ELSE find_urls(Head(values)) \o find_urls_extend(Tail(values))

\* find_urls that also walks the keys of a dict.
find_urls_keys(data) ==
    IF data.type = "dict"
      THEN find_urls_extend([i \in DOMAIN data.keys |-> PyStr(data.keys[i])])
             \o find_urls_extend(data.values)
    ELSE IF data.type = "list" THEN find_urls_extend(data.items)
    ELSE IF data.type = "str" /\ URL_REGEX_match(data.v) THEN <<data.v>>
    ELSE <<>>

find_urls(data) ==
    IF data.type = "dict" THEN find_urls_extend(data.values)
    ELSE IF data.type = "list" THEN find_urls_extend(data.items)
    ELSE IF data.type = "str" /\ URL_REGEX_match(data.v) THEN <<data.v>>
    ELSE <<>>

\* ------------------------------------------------------------ dispatcher
\* Floats that are an integer times a power of two: [m, e] stands for m * 2^e.
\* True division of an int by 2^k (size / 1024, total_size / (1024 * 1024))
\* is exact in binary floating point: it lowers the exponent by k.
DivPow2(n, k) == [m |-> n, e |-> 0 - k]

KB == 10   \* 1024 = 2^10
MB == 20   \* 1024 * 1024 = 2^20

\* f"{size / 1024:.2f} KB": the value in hundredths of a KB, rounded half to
\* even (the sign of a zero is not kept).
FormatKB(size) ==
    LET q == (size * 100) \div 1024
        r == (size * 100) % 1024
    IN IF 2 * r > 1024 \/ (2 * r = 1024 /\ q % 2 = 1) THEN q + 1 ELSE q

\* The dictionary appended to video_details, lines 83-89.
Record(url, size, elapsed) ==
    [url |-> url,
     size |-> DivPow2(size, KB),
     time |-> elapsed,
     formatted_time |-> format_time(elapsed),
     formatted_size |-> FormatKB(size)]

\* function_to_use, line 70.
function_to_use(acc) == IF acc THEN "download_request" ELSE "head_request"

Strategy(fn, url, resp, elapsed_time) ==
    IF fn = "download_request" THEN download_request(url, resp, elapsed_time)
    ELSE head_request(url, resp, elapsed_time)

\* A strategy that tries a second time: two requests go out.
session_request_retried(fn, f, url) ==
    <<[fn |-> IF fn = "download_request" THEN "session.get" ELSE "session.head",
       future |-> f, url |-> url],
      [fn |-> IF fn = "download_request" THEN "session.get" ELSE "session.head",
       future |-> f, url |-> url]>>

\* The requests a strategy call sends: session.head(url, timeout=10), line 42,
\* or session.get(url, stream=True, timeout=10), line 53, once; neither
\* strategy has a loop around it, and requests.Session() mounts adapters that
\* do not retry.
session_request(fn, f, url) ==
    <<[fn |-> IF fn = "download_request" THEN "session.get" ELSE "session.head",
       future |-> f, url |-> url]>>

\* ThreadPoolExecutor() without its argument: the library's default size.
max_workers_default(mt) == 32

\* ThreadPoolExecutor(max_threads): the number of worker threads that take
\* work items off the queue.
max_workers(mt) == mt

\* A dictionary keyed by URL instead: a later future of the same URL replaces
\* the earlier one.
FuturesByUrl(us) == {i \in 1..Len(us) : \A j \in (i + 1)..Len(us) : us[j] # us[i]}

\* The keys of future_to_url, line 78: one future per position of urls.
Futures(us) == 1..Len(us)

NoResult == [total_size |-> DivPow2(0, 0), total_time |-> format_time(0), video_details |-> <<>>]

\* total_time taken from the clock: the wall-clock span of the batch.
ResultWallClock(ts, tt, vd) ==
    [total_size |-> DivPow2(ts, MB),
     total_time |-> [minutes |-> now \div 60, seconds |-> now % 60],
     video_details |-> vd]

\* The dictionary returned, lines 91-100 (total_time: the two numbers of the
\* string).
Result(ts, tt, vd) ==
    [total_size |-> DivPow2(ts, MB),
     total_time |-> [minutes |-> tt \div 60, seconds |-> tt % 60],
     video_details |-> vd]

\* The first value kept: what is collected first decides the total.
AccumulateFirst(total, x) == IF total = 0 THEN x ELSE total

\* = written for +=.
AccumulateAssign(total, x) == x

\* total_size += size, line 81: integers, added exactly.
Accumulate(total, x) == total + x

\* Elapsed times are floats, counted here in ticks: a float holds FloatBits
\* significant bits (53 in Python) and the result of an operation is rounded
\* to the nearest float, ties to the even one.
RECURSIVE BitLength(_)
BitLength(x) == IF x = 0 THEN 0 ELSE 1 + BitLength(x \div 2)

RoundFloat(x) ==
    IF BitLength(x) <= FloatBits THEN x
    ELSE LET unit == 2 ^ (BitLength(x) - FloatBits)
             q == x \div unit
             r == x % unit
         IN IF 2 * r > unit \/ (2 * r = unit /\ q % 2 = 1)
              THEN (q + 1) * unit
              ELSE q * unit

\* total_time += elapsed, line 82: a float addition.
FloatAdd(total, x) == RoundFloat(total + x)

\* finished futures: those holding a result or an exception.
Finished == DOMAIN results

\* shutdown(wait=False): control does not wait for the workers.
ExecutorNotWaited == TRUE

\* `with ThreadPoolExecutor(...)` exit: shutdown(wait=True) returns once every
\* queued work item has run and every worker has stopped.
ExecutorJoined == queue = <<>> /\ running = {}

\* total_time started from a clock reading instead of 0.
PoolStamped ==
    /\ submitted = 0
    /\ queue = <<>>
    /\ running = {}
    /\ age = [f \in {} |-> 0]
    /\ now = 0
    /\ results = [f \in {} |-> 0]
    /\ batch = <<>>
    /\ waiter = <<>>
    /\ pending = {}
    /\ total_size = 0
    /\ total_time = 1
    /\ video_details = <<>>
    /\ ret = NoResult
    /\ responses = [f \in {} |-> ""]
    /\ finish_order = <<>>
    /\ calls = <<>>

\* A fresh executor and fresh locals, lines 73-77.
Pool ==
    /\ submitted = 0
    /\ queue = <<>>
    /\ running = {}
    /\ age = [f \in {} |-> 0]
    /\ now = 0
    /\ results = [f \in {} |-> 0]
    /\ batch = <<>>
    /\ waiter = <<>>
    /\ pending = {}
    /\ total_size = 0
    /\ total_time = 0
    /\ video_details = <<>>
    /\ ret = NoResult
    /\ responses = [f \in {} |-> ""]
    /\ finish_order = <<>>
    /\ calls = <<>>

\* process_urls lines 67-77: the state when the executor has been created.
ProcessUrlsEntry(us, mt, acc) ==
    /\ urls = us
    /\ max_threads = mt
    /\ accurate = acc
    /\ pc = "submit"
    /\ Pool

\* executor.submit(function_to_use, url, session), one step of line 78.
Submit ==
    /\ pc = "submit"
    /\ submitted < Len(urls)
    /\ submitted' = submitted + 1
    /\ queue' = Append(queue, submitted + 1)
    /\ UNCHANGED <<urls, max_threads, accurate, pc, running, age, now, results, batch, waiter,
                   pending, total_size, total_time, video_details, ret, responses, finish_order, calls,
                   uvars>>

\* A worker thread takes the next work item and enters the strategy, which
\* reads the clock (start_time) and sends its request.
Start ==
    /\ queue # <<>>
    /\ Cardinality(running) < max_workers(max_threads)
    /\ LET f == Head(queue) IN
         /\ queue' = Tail(queue)
         /\ running' = running \cup {f}
         /\ age' = (f :> 0) @@ age
         /\ calls' = Append(calls, [fn |-> function_to_use(accurate), future |-> f,
                                    url |-> urls[f]])
                        \o session_request(function_to_use(accurate), f, urls[f])
    /\ UNCHANGED <<urls, max_threads, accurate, pc, submitted, now, results, batch, waiter,
                   pending, total_size, total_time, video_details, ret, responses, finish_order, uvars>>

\* A strategy that adds its size to the caller's running total itself, from
\* the worker thread.
FinishWritesTotal ==
    \E f \in running, resp \in Responses :
        LET r == Strategy(function_to_use(accurate), urls[f], resp, age[f]) IN
        /\ results' = (f :> r) @@ results
        /\ total_size' = IF r.exc = None THEN total_size + r.size ELSE total_size
        /\ running' = running \ {f}
        /\ age' = [g \in DOMAIN age \ {f} |-> age[g]]
        /\ responses' = (f :> resp.kind) @@ responses
        /\ finish_order' = IF observed THEN Append(finish_order, f) ELSE finish_order
        /\ waiter' = IF pc = "collect" /\ f \in Futures(urls)
                     THEN Append(waiter, f) ELSE waiter
        /\ UNCHANGED <<urls, max_threads, accurate, pc, submitted, queue, now, batch, pending,
                       total_time, video_details, ret, calls, uvars>>

\* The request of a running strategy call ends; the strategy returns or raises,
\* the future is set and an installed as_completed waiter is notified.
Finish ==
    \E f \in running, resp \in Responses :
        /\ results' =
             (f :> Strategy(function_to_use(accurate), urls[f], resp, age[f]))
               @@ results
        /\ running' = running \ {f}
        /\ age' = [g \in DOMAIN age \ {f} |-> age[g]]
        /\ responses' = (f :> resp.kind) @@ responses
        /\ finish_order' = IF observed THEN Append(finish_order, f) ELSE finish_order
        /\ waiter' = IF pc = "collect" /\ f \in Futures(urls)
                     THEN Append(waiter, f) ELSE waiter
        /\ UNCHANGED <<urls, max_threads, accurate, pc, submitted, queue, now, batch, pending,
                       total_size, total_time, video_details, ret, calls, uvars>>

\* Time passes while requests are on the wire.
Tick ==
    /\ running # {}
    /\ \A f \in running : age[f] < MaxElapsed
    /\ age' = [f \in running |-> age[f] + 1]
    /\ now' = IF observed THEN now + 1 ELSE now
    /\ UNCHANGED <<urls, max_threads, accurate, pc, submitted, queue, running, results,
                   batch, waiter, pending, total_size, total_time, video_details, ret,
                   responses, finish_order, calls, uvars>>

\* First next() on as_completed(future_to_url), line 79: under the futures'
\* locks, the already finished futures are put aside (a set turned into a
\* list: any order), the others are pending and a waiter is installed.
AsCompleted ==
    /\ pc = "submit"
    /\ submitted = Len(urls)
    /\ \E order \in Perms(Finished \cap Futures(urls)) : batch' = order
    /\ pending' = Futures(urls) \ Finished
    /\ pc' = "collect"
    /\ UNCHANGED <<urls, max_threads, accurate, submitted, queue, running, age, now, results,
                   waiter, total_size, total_time, video_details, ret, responses, finish_order, calls,
                   uvars>>

\* One iteration of the loop of lines 79-89: as_completed yields the next
\* finished future (from its local list, refilled from the waiter in
\* completion order when empty); future.result() returns the tuple or raises
\* the exception the strategy raised.
Collect ==
    /\ pc = "collect"
    /\ batch # <<>> \/ waiter # <<>>
    /\ LET src == IF batch # <<>> THEN batch ELSE waiter
           f == Head(src)
           r == results[f]
       IN /\ batch' = Tail(src)
          /\ waiter' = IF batch # <<>> THEN waiter ELSE <<>>
          /\ pending' = pending \ {f}
          /\ IF r.exc # None
               THEN /\ pc' = "unwind"
                    /\ UNCHANGED <<total_size, total_time, video_details>>
               ELSE /\ total_size' = Accumulate(total_size, r.size)
                    /\ total_time' = FloatAdd(total_time, r.elapsed)
                    /\ video_details' =
                         Append(video_details, Record(r.url, r.size, r.elapsed))
                    /\ UNCHANGED pc
    /\ UNCHANGED <<urls, max_threads, accurate, submitted, queue, running, age, now, results,
                   ret, responses, finish_order, calls, uvars>>

\* as_completed is exhausted, the executor is shut down (waiting), and
\* lines 91-100 build the returned dictionary.
Return ==
    /\ pc = "collect"
    /\ batch = <<>>
    /\ pending = {}
    /\ ExecutorJoined
    /\ pc' = "returned"
    /\ ret' = Result(total_size, total_time, video_details)
    /\ UNCHANGED <<urls, max_threads, accurate, submitted, queue, running, age, now, results,
                   batch, waiter, pending, total_size, total_time, video_details,
                   responses, finish_order, calls, uvars>>

\* An exception raised by future.result() leaves the `with` block: the
\* executor is shut down (waiting) and the exception leaves process_urls.
Unwind ==
    /\ pc = "unwind"
    /\ ExecutorJoined
    /\ pc' = "raised"
    /\ UNCHANGED <<urls, max_threads, accurate, submitted, queue, running, age, now, results,
                   batch, waiter, pending, total_size, total_time, video_details, ret,
                   responses, finish_order, calls, uvars>>

Dispatch == Submit \/ Start \/ Finish \/ Tick \/ AsCompleted \/ Collect \/ Return \/ Unwind

\* URL lists handed to process_urls directly. The dispatcher never looks into
\* a URL, so the lists are taken up to renaming: every length up to MaxUrls
\* with two URLs alternating (from length 3 on a URL comes twice), and the
\* list of one URL twice.
URL_A == <<"h", "t", "t", "p", ":", "/", "/", "a", ".", "i", "o">>
URL_B == <<"h", "t", "t", "p", ":", "/", "/", "b", ".", "i", "o">>
UrlLists ==
    {[i \in 1..n |-> IF i % 2 = 1 THEN URL_A ELSE URL_B] : n \in 0..MaxUrls}
      \cup {<<URL_A, URL_A>>}

NoRequest == [has_file |-> FALSE]
NoResponse == [status |-> 0]
NoWire == [kind |-> "none"]

Init ==
    /\ \E us \in UrlLists, mt \in 1..MaxThreads, acc \in BOOLEAN :
         ProcessUrlsEntry(us, mt, acc)
    /\ request = NoRequest
    /\ response = NoResponse
    /\ doc = PyNone
    /\ found = <<>>
    /\ wire = NoWire
    /\ observed = FALSE

Next == Dispatch

Spec == Init /\ [][Next]_vars

\* The same runs under the scheduling the code relies on: the thread of
\* process_urls keeps running (Submit, AsCompleted, Collect, Return, Unwind),
\* an idle worker takes queued work (Start), and every request ends, by its
\* response or by its 10 second timeout (Finish).
Fairness ==
    /\ WF_vars(Submit)
    /\ WF_vars(Start)
    /\ WF_vars(Finish)
    /\ WF_vars(AsCompleted)
    /\ WF_vars(Collect)
    /\ WF_vars(Return)
    /\ WF_vars(Unwind)

SpecLive == Init /\ [][Next]_vars /\ Fairness

\* The same runs with the clock read and the finishing order recorded, for
\* batches of up to MaxTimedUrls URLs.
InitTimed ==
    /\ \E us \in {l \in UrlLists : Len(l) <= MaxTimedUrls},
          mt \in 1..MaxThreads, acc \in BOOLEAN :
         ProcessUrlsEntry(us, mt, acc)
    /\ request = NoRequest
    /\ response = NoResponse
    /\ doc = PyNone
    /\ found = <<>>
    /\ wire = NoWire
    /\ observed = TRUE

SpecTimed == InitTimed /\ [][Next]_vars

\* ----------------------------------------------- the collecting loop
\* The loop of lines 79-89 from the point where every measurement has
\* finished before as_completed is first asked: the finished futures come in
\* any order. The tuples in the futures are any assignment of sizes and
\* elapsed times to the URLs; that a request takes long enough for a running
\* sum to need rounding is among them.
Sizes == {0, 5}
Elapsed == {0, 1, 2 ^ FloatBits}

RECURSIVE CallsFor(_, _)
CallsFor(us, n) ==
    IF n = 0 THEN <<>>
    ELSE CallsFor(us, n - 1)
           \o <<[fn |-> "head_request", future |-> n, url |-> us[n]]>>
           \o session_request("head_request", n, us[n])

InitAggregate ==
    /\ \E us \in {l \in UrlLists : Len(l) \in 1..MaxAggregated} :
         /\ urls = us
         /\ results \in {[f \in 1..Len(us) |-> Returns(us[f], sz[f], el[f])] :
                           sz \in [1..Len(us) -> Sizes], el \in [1..Len(us) -> Elapsed]}
         /\ batch \in Perms(1..Len(us))
         /\ submitted = Len(us)
         /\ responses = [f \in 1..Len(us) |-> "response"]
         /\ calls = CallsFor(us, Len(us))
    /\ max_threads = 1
    /\ accurate = FALSE
    /\ pc = "collect"
    /\ queue = <<>>
    /\ running = {}
    /\ age = [f \in {} |-> 0]
    /\ now = 0
    /\ waiter = <<>>
    /\ pending = {}
    /\ total_size = 0
    /\ total_time = 0
    /\ video_details = <<>>
    /\ ret = NoResult
    /\ finish_order = <<>>
    /\ request = NoRequest
    /\ response = NoResponse
    /\ doc = PyNone
    /\ found = <<>>
    /\ wire = NoWire
    /\ observed = FALSE

NextAggregate == Collect \/ Return

SpecAggregate == InitAggregate /\ [][NextAggregate]_vars

\* ------------------------------------------------- find_urls on its own
\* JSON values of at most MaxNodes nodes (a node is a container or a leaf).
URL_C == <<"h", "t", "t", "p", "s", ":", "/", "/", "w", "w", "w", ".", "c", ".", "i", "o",
           "/", "x", " ", "y">>
NOT_URL == <<"s", "e", "e", " ", "h", "t", "t", "p", ":", "/", "/", "a", ".", "i", "o">>
URL_KEY == <<"h", "t", "t", "p", ":", "/", "/", "k", ".", "i", "o">>
Leaves == {PyStr(URL_A), PyStr(URL_C), PyStr(NOT_URL), PyIntObj(5), PyNone}
KeyPool == {<<"k">>, URL_KEY}

KeySeqs(n) == {ks \in [1..n -> KeyPool] : \A i, j \in 1..n : i # j => ks[i] # ks[j]}

\* The containers whose sequence of children is in forests: a list, or a dict
\* under every choice of distinct keys.
Containers(forests) ==
    {PyList(f) : f \in forests}
      \cup UNION {{PyDict(ks, f) : ks \in KeySeqs(Len(f))} : f \in forests}

\* table[m] holds the sequences of values of m nodes in all, m >= 1.
ForestsIn(table, m) == IF m = 0 THEN {<<>>} ELSE table[m]

\* The values of exactly n nodes.
DocsIn(table, n) ==
    (IF n = 1 THEN Leaves ELSE {}) \cup Containers(ForestsIn(table, n - 1))

\* The table extended, one total at a time, up to total n.
RECURSIVE ForestTable(_, _)
ForestTable(table, n) ==
    IF Len(table) >= n THEN table
    ELSE ForestTable(
           Append(table,
                  UNION {{<<d>> \o r : d \in DocsIn(table, k),
                                       r \in ForestsIn(table, Len(table) + 1 - k)} :
                           k \in 1..(Len(table) + 1)}),
           n)

DocsOver(table, n) == UNION {DocsIn(table, k) : k \in 1..n}

DocsUpTo(n) == DocsOver(ForestTable(<<>>, n - 1), n)

Docs == DocsUpTo(MaxNodes)

InitExtract ==
    /\ doc \in Docs
    /\ found = <<>>
    /\ pc = "extract"
    /\ urls = <<>> /\ max_threads = 0 /\ accurate = FALSE
    /\ Pool
    /\ request = NoRequest
    /\ response = NoResponse
    /\ wire = NoWire
    /\ observed = FALSE

\* urls = find_urls(data)
Extract ==
    /\ pc = "extract"
    /\ found' = find_urls(doc)
    /\ pc' = "extracted"
    /\ UNCHANGED <<urls, max_threads, accurate, submitted, queue, running, age, now, results,
                   batch, waiter, pending, total_size, total_time, video_details, ret,
                   responses, finish_order, calls, request, response, doc, wire, observed>>

NextExtract == Extract

SpecExtract == InitExtract /\ [][NextExtract]_vars

\* ------------------------------------------------------- upload handler
\* What the uploaded file holds: bytes that are no text, text that is no
\* JSON, or the text of a JSON value.
Undecodable == [kind |-> "undecodable"]
NotJSON == [kind |-> "not json"]
JSONText(v) == [kind |-> "json", value |-> v]

\* json.load(file), line 139.
json_load(file) ==
    IF file.kind = "json" THEN [exc |-> None, value |-> file.value]
    ELSE IF file.kind = "not json" THEN [exc |-> "JSONDecodeError"]
    ELSE [exc |-> "UnicodeDecodeError"]

\* A check that lets any container through.
IsListOrDict(data) == data.type \in {"list", "dict"}

\* isinstance(data, list), line 140.
IsList(data) == data.type = "list"

\* The mode looked up where the form is not: always the default.
FormGetElsewhere(form, name, default) == default

\* request.form.get("mode", "1"), line 149; the form is a set of fields.
FormGet(form, name, default) == IF name \in DOMAIN form THEN form[name] ELSE default

UPLOAD_MAX_THREADS == 10

NoFilePart == [has_file |-> FALSE]
FileRequest(filename, file, form) ==
    [has_file |-> TRUE, filename |-> filename, file |-> file, form |-> form]

NoForm == [n \in {} |-> ""]
ModeForm(m) == [n \in {"mode"} |-> m]
Forms == {NoForm, ModeForm("1"), ModeForm("2"), ModeForm("3")}

UploadFiles ==
    {Undecodable, NotJSON}
      \cup {JSONText(v) : v \in DocsUpTo(MaxUploadNodes)}

Requests ==
    {NoFilePart, FileRequest("", NotJSON, NoForm)}
      \cup {FileRequest("urls.json", file, form) : file \in UploadFiles, form \in Forms}

Error(status, message) == [status |-> status, error |-> message]

InitUpload ==
    /\ request \in Requests
    /\ response = NoResponse
    /\ doc = PyNone
    /\ found = <<>>
    /\ pc = "upload"
    /\ urls = <<>> /\ max_threads = 0 /\ accurate = FALSE
    /\ Pool
    /\ wire = NoWire
    /\ observed = FALSE

\* upload(), lines 129-153 and 173-174: from the request to an error response
\* or to the call of process_urls.
Upload ==
    /\ pc = "upload"
    /\ LET data == json_load(request.file)
           found_urls == find_urls(data.value)
           mode == FormGet(request.form, "mode", "1")
       IN IF ~request.has_file
            THEN /\ response' = Error(400, "No file part")
                 /\ pc' = "responded"
                 /\ UNCHANGED <<doc, found, calls, urls, max_threads, accurate>>
          ELSE IF request.filename = ""
            THEN /\ response' = Error(400, "No selected file")
                 /\ pc' = "responded"
                 /\ UNCHANGED <<doc, found, calls, urls, max_threads, accurate>>
          ELSE IF data.exc = "JSONDecodeError"
            THEN /\ response' = Error(400, "Invalid JSON file.")
                 /\ pc' = "responded"
                 /\ UNCHANGED <<doc, found, calls, urls, max_threads, accurate>>
          ELSE IF data.exc # None
            THEN /\ response' = Error(500, data.exc)
                 /\ pc' = "responded"
                 /\ UNCHANGED <<doc, found, calls, urls, max_threads, accurate>>
          ELSE IF ~IsList(data.value)
            THEN /\ response' = Error(400, "Invalid JSON structure. Should be a list of URLs.")
                 /\ pc' = "responded"
                 /\ doc' = data.value
                 /\ UNCHANGED <<found, calls, urls, max_threads, accurate>>
          ELSE IF found_urls = <<>>
            THEN /\ response' = Error(400, "No valid URLs found in the JSON file.")
                 /\ pc' = "responded"
                 /\ doc' = data.value
                 /\ found' = found_urls
                 /\ calls' = Append(calls, [fn |-> "find_urls"])
                 /\ UNCHANGED <<urls, max_threads, accurate>>
          ELSE /\ doc' = data.value
               /\ found' = found_urls
               /\ calls' = calls \o <<[fn |-> "find_urls"], [fn |-> "process_urls"]>>
               /\ urls' = found_urls
               /\ max_threads' = UPLOAD_MAX_THREADS
               /\ accurate' = (mode = "2")
               /\ pc' = "submit"
               /\ UNCHANGED response
    /\ UNCHANGED <<submitted, queue, running, age, now, results, batch, waiter, pending,
                   total_size, total_time, video_details, ret, responses, finish_order, request, wire,
                   observed>>

\* upload(), lines 153-171, after process_urls: an exception of process_urls
\* leaves the handler (status 500); the template calls len(), a name Jinja
\* does not define, so rendering raises UndefinedError (status 500).
Respond ==
    /\ request.has_file
    /\ pc \in {"returned", "raised"}
    /\ response' = IF pc = "raised" THEN Error(500, "ValueError")
                   ELSE Error(500, "UndefinedError")
    /\ pc' = "responded"
    /\ UNCHANGED <<dvars_but_pc, request, doc, found, wire, observed>>

NextUpload == Upload \/ Dispatch \/ Respond

SpecUpload == InitUpload /\ [][NextUpload]_vars

\* ------------------------------------------- one strategy call on its own
\* One call of the selected strategy by a worker, over a wider range of
\* responses than the dispatcher runs are given: the Content-Length header
\* absent, a plain number, text that is no number, empty, negative, padded
\* with spaces, with an underscore, a decimal fraction, signed; bodies of no
\* byte, one byte, exactly one chunk and one chunk and a byte.
HeaderTexts ==
    {<<"0">>, <<"2", "0", "4", "8">>, <<"a", "b", "c">>, <<>>, <<"-", "1">>,
     <<" ", "7", " ">>, <<"1", "_", "0">>, <<"1", ".", "5">>, <<"+", "3">>}
HeaderSets == {NoHeaders} \cup {ContentLength(t) : t \in HeaderTexts}
Bodies == {0, 1, CHUNK_SIZE, CHUNK_SIZE + 1}
WireResponses == {RequestException} \cup {Response(h, b) : h \in HeaderSets, b \in Bodies}

\* What the request of the call ended in and how long the call took.
Wire(resp, elapsed) == [kind |-> "call", response |-> resp, elapsed |-> elapsed]

InitMeasure ==
    /\ \E u \in {URL_A, URL_B} : urls = <<u>>
    /\ max_threads = 1
    /\ accurate \in BOOLEAN
    /\ pc = "measure"
    /\ submitted = 1
    /\ queue = <<1>>
    /\ running = {}
    /\ age = [f \in {} |-> 0]
    /\ now = 0
    /\ results = [f \in {} |-> 0]
    /\ batch = <<>>
    /\ waiter = <<>>
    /\ pending = {}
    /\ total_size = 0
    /\ total_time = 0
    /\ video_details = <<>>
    /\ ret = NoResult
    /\ responses = [f \in {} |-> ""]
    /\ finish_order = <<>>
    /\ calls = <<>>
    /\ request = NoRequest
    /\ response = NoResponse
    /\ doc = PyNone
    /\ found = <<>>
    /\ wire = NoWire
    /\ observed = TRUE

\* The request of the running strategy call ends (lines 42-43 or 53-54) and
\* the strategy returns or raises (lines 44-47 or 55-58).
Measure ==
    /\ pc = "measure"
    /\ \E f \in running, resp \in WireResponses :
         /\ results' =
              (f :> Strategy(function_to_use(accurate), urls[f], resp, age[f]))
                @@ results
         /\ running' = running \ {f}
         /\ age' = [g \in DOMAIN age \ {f} |-> age[g]]
         /\ responses' = (f :> resp.kind) @@ responses
         /\ finish_order' = IF observed THEN Append(finish_order, f) ELSE finish_order
         /\ wire' = Wire(resp, age[f])
    /\ pc' = "measured"
    /\ UNCHANGED <<urls, max_threads, accurate, submitted, queue, now, batch, waiter, pending,
                   total_size, total_time, video_details, ret, calls,
                   request, response, doc, found, observed>>

NextMeasure == Start \/ Tick \/ Measure

SpecMeasure == InitMeasure /\ [][NextMeasure]_vars

\* ================================================================ claims
Range(s) == {s[i] : i \in DOMAIN s}
Count(x, s) == Cardinality({i \in DOMAIN s : s[i] = x})

RECURSIVE Pow2(_)
Pow2(k) == IF k = 0 THEN 1 ELSE 2 * Pow2(k - 1)

\* The float q times 2^k, as an integer.
Scale(q, k) ==
    IF q.e + k >= 0 THEN q.m * Pow2(q.e + k) ELSE q.m \div Pow2(0 - (q.e + k))

\* byteSize of a record: its size in KB times 1024.
ByteSize(rec) == Scale(rec.size, KB)
ByteSizes(recs) == [i \in DOMAIN recs |-> ByteSize(recs[i])]

\* C1: when process_urls returns, the returned records are one per input
\* position: as many records as URLs, and every URL is the url of as many
\* records as it has positions in the input list (duplicates included).
C1_OneRecordPerPosition ==
    pc = "returned" =>
        LET rec_urls == [i \in DOMAIN ret.video_details |-> ret.video_details[i].url]
        IN /\ Len(rec_urls) = Len(urls)
           /\ \A u \in Range(urls) \cup Range(rec_urls) : Count(u, rec_urls) = Count(u, urls)

\* C1 witness: a returned batch of three URLs with the same URL at two positions.
C1_Witness ==
    /\ pc = "returned"
    /\ Len(urls) = 3
    /\ urls[1] = urls[3]
    /\ urls[1] # urls[2]
    /\ Len(ret.video_details) = 3

\* C2: at every iteration boundary of the collecting loop the running total
\* is the sum of the byte sizes of the records appended so far, and the total
\* returned (in MB) is exactly the sum of the byte sizes of the returned records.
C2_TotalIsSumOfRecords ==
    /\ total_size = SumSeq(ByteSizes(video_details))
    /\ pc = "returned" => Scale(ret.total_size, MB) = SumSeq(ByteSizes(ret.video_details))

\* C2 witness: a returned batch with a failed (zero) record and two non-zero records.
C2_Witness ==
    /\ pc = "returned"
    /\ Len(ret.video_details) = 3
    /\ \E i, j, k \in 1..3 :
         /\ i # j /\ j # k /\ i # k
         /\ responses[i] = "RequestException"
         /\ results[j].size > 0
         /\ results[k].size > 0
    /\ Scale(ret.total_size, MB) > 0

\* The futures as_completed has yielded so far.
Collected == IF pc = "submit" THEN {} ELSE (1..Len(urls)) \ (Range(batch) \cup pending)

\* C3: a measurement whose request raises RequestException ends in the tuple
\* (url, 0, 0), never in an exception; whenever control leaves process_urls
\* every measurement of the batch has run; at any moment the records are, for
\* the futures collected so far, the zero record of each failed URL and the
\* record of its own result for every other URL; and the only measurement
\* that ends the collecting loop early is one whose request did not fail.
C3_NetworkErrorIsZeroRecord ==
    /\ \A f \in DOMAIN results :
         responses[f] = "RequestException" => results[f] = Returns(urls[f], 0, 0)
    /\ pc \in {"returned", "raised"} => DOMAIN results = 1..Len(urls)
    /\ LET recorded == {f \in Collected :
                          responses[f] = "RequestException" \/ results[f].exc = None}
           expected == [f \in recorded |->
                          IF responses[f] = "RequestException"
                            THEN Record(urls[f], 0, 0)
                            ELSE Record(urls[f], results[f].size, results[f].elapsed)]
       IN /\ Len(video_details) = Cardinality(recorded)
          /\ \A f \in recorded :
               Count(expected[f], video_details)
                 = Cardinality({g \in recorded : expected[g] = expected[f]})
    /\ pc = "returned" => Collected = 1..Len(urls) /\ ret.video_details = video_details
    /\ pc \in {"unwind", "raised"} =>
         \E f \in Collected : results[f].exc # None /\ responses[f] = "response"

\* C3 witness: a returned batch in which one request failed and a sibling
\* was recorded with a non-zero size and a non-zero time.
C3_Witness ==
    /\ pc = "returned"
    /\ \E f, g \in 1..Len(urls) :
         /\ responses[f] = "RequestException"
         /\ responses[g] = "response"
         /\ \E i \in DOMAIN ret.video_details :
              /\ ret.video_details[i].url = urls[g]
              /\ ByteSize(ret.video_details[i]) > 0
              /\ ret.video_details[i].time > 0
         /\ \E i \in DOMAIN ret.video_details :
              /\ ret.video_details[i].url = urls[f]
              /\ ByteSize(ret.video_details[i]) = 0
              /\ ret.video_details[i].time = 0

\* C4, as claimed: whatever the requests end in, no strategy call ends in an
\* exception and control leaves process_urls by returning, never by raising.
C4_NoExceptionEscapes ==
    pc \in {"returned", "raised"} =>
        /\ pc = "returned"
        /\ \A f \in DOMAIN results : results[f].exc = None

\* C5: at most max_threads measurements are started and not finished.
C5_InFlightBounded == Cardinality(running) <= max_threads

\* C5 witness: two workers, both busy, with a third measurement waiting.
C5_Witness ==
    /\ max_threads = 2
    /\ Cardinality(running) = 2
    /\ queue # <<>>

\* C6: when control has left process_urls no measurement of the batch is
\* queued or in flight, and when it has returned every future has been
\* yielded by as_completed and recorded.
C6_ReturnsAfterAllCollected ==
    /\ pc \in {"returned", "raised"} =>
         /\ submitted = Len(urls)
         /\ queue = <<>>
         /\ running = {}
         /\ DOMAIN results = 1..Len(urls)
    /\ pc = "returned" =>
         /\ batch = <<>> /\ waiter = <<>> /\ pending = {}
         /\ Len(ret.video_details) = Len(urls)

\* C6 witness: a returned batch of three URLs run by a single worker.
C6_Witness ==
    /\ pc = "returned"
    /\ max_threads = 1
    /\ Len(urls) = 3
    /\ Cardinality({i \in DOMAIN calls : calls[i].fn = function_to_use(accurate)}) = 3

\* C7: with an empty URL list process_urls never raises, invokes no
\* measurement, and returns zero totals and an empty record sequence.
C7_EmptyListZeroResult ==
    urls = <<>> /\ pc \in {"submit", "collect", "unwind", "returned", "raised"} =>
        /\ pc \notin {"unwind", "raised"}
        /\ calls = <<>>
        /\ DOMAIN results = {}
        /\ pc = "returned" =>
             /\ Scale(ret.total_size, MB) = 0
             /\ ret.total_time = [minutes |-> 0, seconds |-> 0]
             /\ ret.video_details = <<>>

\* C7 witness: process_urls has returned for the empty list.
C7_Witness == urls = <<>> /\ pc = "returned"

\* The string leaves of a JSON value (dict values and list items, not keys).
RECURSIVE StrLeaves(_)
StrLeaves(data) ==
    IF data.type = "dict" THEN UNION {StrLeaves(data.values[i]) : i \in DOMAIN data.values}
    ELSE IF data.type = "list" THEN UNION {StrLeaves(data.items[i]) : i \in DOMAIN data.items}
    ELSE IF data.type = "str" THEN {data.v}
    ELSE {}

\* C8: every item find_urls returns is a string leaf of the document that
\* matches the URL pattern (never a key), and a document without a matching
\* string leaf gives the empty sequence.
C8_ItemsAreMatchingLeaves ==
    pc = "extracted" =>
        /\ \A i \in DOMAIN found : found[i] \in StrLeaves(doc) /\ URL_REGEX_match(found[i])
        /\ (\A x \in StrLeaves(doc) : ~URL_REGEX_match(x)) => found = <<>>

\* C8 witness: a dict with a URL-shaped key whose value holds a URL.
C8_Witness ==
    /\ pc = "extracted"
    /\ doc.type = "dict"
    /\ URL_KEY \in Range(doc.keys)
    /\ found # <<>>

\* All leaves of a JSON value in depth-first order: dict values in insertion
\* order, list items in index order.
RECURSIVE LeafSeq(_)
RECURSIVE LeafSeqAll(_)
LeafSeqAll(values) ==
    IF values = <<>> THEN <<>> ELSE LeafSeq(Head(values)) \o LeafSeqAll(Tail(values))
LeafSeq(data) ==
    IF data.type = "dict" THEN LeafSeqAll(data.values)
    ELSE IF data.type = "list" THEN LeafSeqAll(data.items)
    ELSE <<data>>

IsUrlLeaf(leaf) == leaf.type = "str" /\ URL_REGEX_match(leaf.v)

\* C9: find_urls returns, in depth-first order, exactly the leaf occurrences
\* that are strings matching the URL pattern, each once.
C9_DepthFirstOrder ==
    pc = "extracted" =>
        LET hits == SelectSeq(LeafSeq(doc), IsUrlLeaf)
        IN found = [i \in DOMAIN hits |-> hits[i].v]

\* C9 witness: a dict whose first value is a list holding a URL and whose
\* second value is another URL.
C9_Witness ==
    /\ pc = "extracted"
    /\ doc.type = "dict"
    /\ Len(doc.values) = 2
    /\ doc.values[1].type = "list"
    /\ found = <<URL_C, URL_A>>

\* C10: an upload that is not valid JSON, or whose top level is not a list,
\* gets an error response with neither find_urls nor process_urls called; an
\* upload whose list holds no URL gets an error response with process_urls
\* never called.
C10_CoreGatedByValidation ==
    request.has_file /\ request.filename # "" =>
        LET parsed == json_load(request.file)
            rejected == parsed.exc # None \/ parsed.value.type # "list"
            no_urls == ~rejected /\ find_urls(parsed.value) = <<>>
        IN /\ rejected =>
                /\ calls = <<>>
                /\ pc \in {"upload", "responded"}
                /\ pc = "responded" => response.status >= 400
           /\ no_urls =>
                /\ \A i \in DOMAIN calls : calls[i].fn = "find_urls"
                /\ pc \in {"upload", "responded"}
                /\ pc = "responded" => response.status >= 400

\* C10 witness: a list without URLs was answered with an error after
\* find_urls was called.
C10_Witness ==
    /\ pc = "responded"
    /\ request.has_file
    /\ doc.type = "list"
    /\ Len(doc.items) = 2
    /\ found = <<>>
    /\ calls = <<[fn |-> "find_urls"]>>
    /\ response.status = 400

\* The header text is one int() reads as a number.
DeclaresNumber(text) == PyInt(PyStr(text)).ok

\* C11, as claimed: in fast mode a response without a Content-Length header,
\* or with one that is not a number, gives the tuple (url, 0, elapsed): the
\* call returns, with size 0 and the time the request took.
C11_MissingOrBadLengthIsZero ==
    /\ pc = "measured"
    /\ ~accurate
    /\ wire.response.kind = "response"
    /\ \/ "Content-Length" \notin DOMAIN wire.response.headers
       \/ ~DeclaresNumber(wire.response.headers["Content-Length"])
    => results[1] = Returns(urls[1], 0, wire.elapsed)

\* C12, as claimed: whatever the response, the tuple a strategy returns has a
\* size that is not negative.
C12_ByteSizeNonNegative ==
    pc = "measured" /\ results[1].exc = None => results[1].size >= 0

\* C13, as claimed: the returned records are in completion order: their URLs,
\* read in sequence, are the URLs of the measurements in the order the
\* measurements finished.
C13_RecordsInCompletionOrder ==
    pc = "returned" =>
        [i \in DOMAIN ret.video_details |-> ret.video_details[i].url]
          = [i \in DOMAIN finish_order |-> urls[finish_order[i]]]

\* The float sum of a sequence, added from left to right.
RECURSIVE FloatSum(_)
FloatSum(s) ==
    IF s = <<>> THEN 0
    ELSE FloatAdd(FloatSum(SubSeq(s, 1, Len(s) - 1)), s[Len(s)])

\* The elapsed times of a record sequence.
Times(recs) == [i \in DOMAIN recs |-> recs[i].time]

\* C14: at every iteration boundary of the collecting loop total_time is the
\* float sum, in record order, of the elapsed times of the records appended
\* so far; the total returned (minutes and seconds) is that sum over the
\* returned records, whose times are the elapsed times the strategy calls
\* returned, a failed request counting 0 however long it took. The wall
\* clock plays no part: see the witness.
C14_TotalTimeIsSumOfElapsed ==
    /\ total_time = FloatSum(Times(video_details))
    /\ pc = "returned" =>
         /\ 60 * ret.total_time.minutes + ret.total_time.seconds
              = FloatSum(Times(ret.video_details))
         /\ \A f \in 1..Len(urls) :
              /\ Count(results[f].elapsed, Times(ret.video_details))
                   = Cardinality({g \in 1..Len(urls) :
                                    results[g].elapsed = results[f].elapsed})
              /\ responses[f] = "RequestException" => results[f].elapsed = 0

\* C14 witness: two requests ran side by side on two workers, each took a
\* unit of time, and the returned total is 2 although the clock advanced by 1.
C14_Witness ==
    /\ pc = "returned"
    /\ max_threads = 2
    /\ Len(ret.video_details) = 2
    /\ \A i \in 1..2 : ret.video_details[i].time = 1
    /\ ret.total_time = [minutes |-> 0, seconds |-> 2]
    /\ now = 1

\* The calls made of fn on behalf of future f.
CallsOf(fn, f) == Cardinality({i \in DOMAIN calls : calls[i].fn = fn /\ calls[i].future = f})

\* C15: in a run of process_urls the selected strategy is called at most once
\* for each position of the URL list, with the URL at that position; each
\* call sends exactly one request, of the kind its strategy sends, whether
\* the request fails or not; nothing else is called; and when control leaves
\* process_urls every position has had its one call.
C15_OneCallOneRequest ==
    LET strategy == function_to_use(accurate)
        session_call == IF accurate THEN "session.get" ELSE "session.head"
        started == running \cup DOMAIN results
    IN /\ \A f \in 1..Len(urls) :
            /\ CallsOf(strategy, f) = (IF f \in started THEN 1 ELSE 0)
            /\ CallsOf(session_call, f) = CallsOf(strategy, f)
       /\ Len(calls) = 2 * Cardinality(started)
       /\ \A i \in DOMAIN calls :
            /\ calls[i].fn \in {strategy, session_call}
            /\ calls[i].future \in 1..Len(urls)
            /\ calls[i].url = urls[calls[i].future]
       /\ pc \in {"returned", "raised"} => started = 1..Len(urls)

\* C15 witness: a returned batch of three URLs in which a request failed and
\* another did not: three strategy calls and three requests in all.
C15_Witness ==
    /\ pc = "returned"
    /\ Len(urls) = 3
    /\ \E f, g \in 1..3 : responses[f] = "RequestException" /\ responses[g] = "response"
    /\ Len(calls) = 6

Strategies == {"head_request", "download_request"}

\* C16: once the handler has called process_urls, the batch has one strategy:
\* download_request if the form's mode is "2", head_request for any other
\* mode and for no mode. Every strategy call of the batch is of that
\* strategy and sends that strategy's request, every stored outcome is one
\* that strategy produces for its URL, and when the batch is done every URL
\* of it has been measured so.
C16_OneStrategyPerBatch ==
    request.has_file /\ pc \notin {"upload"} /\ urls # <<>> =>
        LET mode == IF "mode" \in DOMAIN request.form THEN request.form["mode"] ELSE "absent"
            expected == IF mode = "2" THEN "download_request" ELSE "head_request"
            sent == IF mode = "2" THEN "session.get" ELSE "session.head"
        IN /\ \A i \in DOMAIN calls :
                /\ calls[i].fn \in Strategies => calls[i].fn = expected
                /\ calls[i].fn \in {"session.get", "session.head"} => calls[i].fn = sent
           /\ \A f \in DOMAIN results :
                \E resp \in Responses, e \in 0..MaxElapsed :
                    /\ resp.kind = responses[f]
                    /\ results[f] = Strategy(expected, urls[f], resp, e)
           /\ pc \in {"returned", "raised", "responded"} =>
                \A f \in 1..Len(urls) : CallsOf(expected, f) = 1 /\ f \in DOMAIN results

\* C16 witness: a batch of two URLs uploaded with mode "2" has been measured
\* and answered, both URLs by download_request.
C16_Witness ==
    /\ pc = "responded"
    /\ request.has_file
    /\ request.form = ModeForm("2")
    /\ Len(urls) = 2
    /\ \A f \in 1..2 : CallsOf("download_request", f) = 1 /\ results[f].exc = None
    /\ \E f \in 1..2 : results[f].size = CHUNK_SIZE + 1

\* The sum of fn over the set S.
RECURSIVE SumOver(_, _)
SumOver(fn, S) ==
    IF S = {} THEN 0
    ELSE LET x == CHOOSE x \in S : TRUE IN fn[x] + SumOver(fn, S \ {x})

\* The futures whose tuple the collecting loop has taken.
Taken == {f \in Collected : results[f].exc = None}

\* What the caller's thread has accumulated, if no update was lost.
TotalsAreOfTaken ==
    /\ total_size = SumOver([f \in Taken |-> results[f].size], Taken)
    /\ total_time = SumOver([f \in Taken |-> results[f].elapsed], Taken)
    /\ Len(video_details) = Cardinality(Taken)

\* C17: no step of a worker (taking a work item, finishing a strategy call)
\* and no passing of time changes total_size, total_time or video_details;
\* and at every moment the totals and the record list hold exactly the
\* tuples the caller's loop has taken from the futures so far: no update is
\* lost or doubled, however the workers interleave with the loop.
C17_TotalsOwnedByCaller ==
    /\ []TotalsAreOfTaken
    /\ [][Start \/ Finish \/ Tick => UNCHANGED <<total_size, total_time, video_details>>]_vars

\* C17 witness: the loop has taken one tuple and holds its size, while a
\* worker has finished another call that waits to be collected and a third
\* call is in flight.
C17_Witness ==
    /\ pc = "collect"
    /\ Len(video_details) = 1
    /\ total_size > 0
    /\ waiter # <<>>
    /\ running # {}

\* The tuples of the batch, by position of the URL list.
SizeOf == [f \in 1..Len(urls) |-> results[f].size]
ElapsedOf == [f \in 1..Len(urls) |-> results[f].elapsed]

\* The returned records are, as a multiset, the records of the tuples.
RecordsAreOfTuples ==
    /\ Len(ret.video_details) = Len(urls)
    /\ \A f \in 1..Len(urls) :
         LET rec(g) == Record(urls[g], results[g].size, results[g].elapsed)
         IN Count(rec(f), ret.video_details)
              = Cardinality({g \in 1..Len(urls) : rec(g) = rec(f)})

\* C18, as claimed: whatever order the tuples are collected in, the returned
\* totals are those of the run that collects them in submission order, and
\* the returned records are the same multiset.
C18_SameTotalsInEveryOrder ==
    pc = "returned" =>
        /\ ret.total_size = Result(SumSeq(SizeOf), 0, <<>>).total_size
        /\ ret.total_time = Result(0, FloatSum(ElapsedOf), <<>>).total_time
        /\ RecordsAreOfTuples

\* No addition of the left-to-right float sum of s rounds.
SumsExactly(s) == \A k \in 1..Len(s) : RoundFloat(SumSeq(SubSeq(s, 1, k))) = SumSeq(SubSeq(s, 1, k))

\* C18, amended: whatever order the tuples are collected in, the returned
\* total size is the exact sum of the sizes and the returned records are the
\* same multiset; the returned total time is the exact sum of the elapsed
\* times, hence the same in every order, in the runs where no running sum
\* needs rounding.
C18_SameTotalsUpToRounding ==
    pc = "returned" =>
        /\ ret.total_size = Result(SumSeq(SizeOf), 0, <<>>).total_size
        /\ RecordsAreOfTuples
        /\ SumsExactly(Times(ret.video_details)) =>
             ret.total_time = Result(0, SumSeq(ElapsedOf), <<>>).total_time

\* C18 witness: three tuples with different sizes and times were collected
\* in an order other than the submission order, no sum needing rounding.
C18_Witness ==
    /\ pc = "returned"
    /\ Len(urls) = 3
    /\ results[1].size # results[3].size
    /\ results[1].elapsed = 1 /\ results[2].elapsed = 1 /\ results[3].elapsed = 0
    /\ Times(ret.video_details) = <<0, 1, 1>>
    /\ SumsExactly(Times(ret.video_details))
    /\ ret.total_time.seconds = 2

\* C19, as claimed: under fair scheduling, with every request ending,
\* process_urls eventually returns.
C19_EventuallyReturns == <>(pc = "returned")

====
